---- MODULE Spec2Model ----
(***************************************************************************)
(* The spaced-repetition scheduler of src/src/lib/spacedRepetition.ts:     *)
(* the localStorage item 'spaced-repetition-data', the operations that     *)
(* read and write it, and the priority / due / statistics queries.         *)
(*                                                                         *)
(* Numbers.  The source computes with IEEE-754 doubles.  A double x is     *)
(* held exactly as the pair [t, d] with                                    *)
(*        x = t/10 + d * U,      U = 2^-56 / 10,                           *)
(* t an integer count of tenths and d the (small) deviation of the double  *)
(* from t/10.  Every operation computes the exact result in this form and  *)
(* rounds it to the nearest double, ties to even, as the hardware does.    *)
(*                                                                         *)
(* Time.  The clock counts whole days: Date.now() is `now` days, and the   *)
(* source's 24 * 60 * 60 * 1000 milliseconds are Day = 1 clock unit.       *)
(***************************************************************************)
EXTENDS Integers, Sequences, FiniteSets, TLC

\* ------------------------------------------------------------- bounds
\* Answers recorded (over all questions) since their records were created.
MaxAnswers == 5
\* Last day of the clock.
MaxNow == 1

\* Question identifiers (opaque strings in the source).
Ids == {"q1", "q2"}

\* The id lists handed to the list operations.
IdLists == UNION {[1..n -> Ids] : n \in 0..Cardinality(Ids)}

\* ------------------------------------------------------------- doubles
RECURSIVE Pow2(_)
Pow2(n) == IF n = 0 THEN 1 ELSE 2 * Pow2(n - 1)

RECURSIVE FloorLog2(_)
FloorLog2(n) == IF n < 2 THEN 0 ELSE 1 + FloorLog2(n \div 2)

\* 2^n mod 5, for n >= 0.
Pow2Mod5(n) == CASE n % 4 = 0 -> 1 [] n % 4 = 1 -> 2 [] n % 4 = 2 -> 4 [] OTHER -> 3

\* s = e + 4 where 2^e <= t/10 + d*U < 2^(e+1), for a positive value.
Scale(t, d) == FloorLog2((IF d < 0 THEN 16 * t - 1 ELSE 16 * t) \div 10)

\* The exact value t/10 + d*U rounded to the nearest double, ties to the
\* even mantissa.  In the binade of scale s the doubles are the multiples
\* of G = 10 * 2^s units U, i.e. the d with  t * 2^56 + d = 0 (mod G).
RoundToDouble(t, d) ==
  LET s    == Scale(t, d)
      G    == 10 * Pow2(s)
      c    == Pow2(s + 1) * ((t * Pow2Mod5(55 - s)) % 5)
      off  == (d + c) % G
      low  == d - off
      c2   == Pow2(s + 2) * ((t * Pow2Mod5(54 - s)) % 5)
      even == (c2 + low) % (2 * G) = 0
  IN  IF t = 0 THEN [t |-> 0, d |-> 0]
      ELSE IF 2 * off < G \/ (2 * off = G /\ even)
           THEN [t |-> t, d |-> low]
           ELSE [t |-> t, d |-> low + G]

\* A decimal literal with one fractional digit, e.g. 2.5 is Lit(25).
Lit(t) == RoundToDouble(t, 0)
\* An integer as a double.
Int2D(n) == [t |-> 10 * n, d |-> 0]

DAdd(a, b) == RoundToDouble(a.t + b.t, a.d + b.d)
DSub(a, b) == RoundToDouble(a.t - b.t, a.d - b.d)
\* double * integer (the integer is exactly representable).
DMulInt(a, n) == RoundToDouble(n * a.t, n * a.d)
DLess(a, b) == a.t < b.t \/ (a.t = b.t /\ a.d < b.d)
MathMax(a, b) == IF DLess(a, b) THEN b ELSE a
MathMin(a, b) == IF DLess(b, a) THEN b ELSE a
\* Math.round: the nearest integer, halves rounded up.
MathRound(a) ==
  LET q == a.t \div 10
      r == a.t % 10
  IN  IF r < 5 \/ (r = 5 /\ a.d < 0) THEN q ELSE q + 1

\* ------------------------------------------------------------- storage
\* One day in clock units (24 * 60 * 60 * 1000 ms in the source).
Day == 1

\* localStorage.getItem(STORAGE_KEY) when the key is not set.
NoItem == [kind |-> "none", members |-> {}]

\* JSON.stringify of a questionId -> record object: the text lists one
\* member (key, value) per own property.
JSONstringify(data) ==
  [kind |-> "object", members |-> {<<k, data[k]>> : k \in DOMAIN data}]

\* JSON.parse of such a text: the object with one property per member.
JSONparse(text) ==
  [k \in {m[1] : m \in text.members} |->
      (CHOOSE m \in text.members : m[1] = k)[2]]

\* Stored texts that are not the JSON of an object: the empty string, text
\* that is not JSON, and the JSON of null, of a number, of a string, of a
\* boolean and of an array.
OtherItems ==
  {[kind |-> k, members |-> {}] :
     k \in {"empty", "garbage", "null", "number", "string", "boolean", "array"}}

\* The value getRepetitionData returns is given by two operators: its type
\* (ReturnedType) and its own properties (getRepetitionData).  A missing or
\* empty item is falsy and gives {}; text that is not JSON makes JSON.parse
\* throw and the catch gives {}; any other text gives whatever JSON.parse
\* returns, object or not.
ReturnedType(item) ==
  IF item.kind \in {"none", "empty"} THEN "object"
  ELSE IF item.kind = "garbage" THEN "object"
  ELSE item.kind

\* null, numbers, strings, booleans and arrays have no own property named by
\* a question id.
getRepetitionData(item) ==
  IF item.kind = "object" THEN JSONparse(item) ELSE [k \in {} |-> 0]

saveRepetitionData(data) == JSONstringify(data)

Range(seq) == {seq[i] : i \in 1..Len(seq)}


\* Variant: the pruned object is never saved.
clearRepetitionForChapter_NoSave(item, questionIds) == item

\* Variant: the loop stops after the first record it deletes.
clearRepetitionForChapter_FirstFound(item, questionIds) ==
  LET data  == getRepetitionData(item)
      hits  == {i \in 1..Len(questionIds) : questionIds[i] \in DOMAIN data}
      first == {questionIds[i] : i \in {j \in hits : \A k \in hits : j <= k}}
      kept  == [k \in DOMAIN data \ first |-> data[k]]
  IN  saveRepetitionData(kept)

\* Variant: the loop starts at the second id.
clearRepetitionForChapter_SkipFirst(item, questionIds) ==
  LET data == getRepetitionData(item)
      kept == [k \in DOMAIN data \ {questionIds[i] : i \in 2..Len(questionIds)} |->
                 data[k]]
  IN  saveRepetitionData(kept)

clearRepetitionForChapter(item, questionIds) ==
  LET data == getRepetitionData(item)
      kept == [k \in DOMAIN data \ Range(questionIds) |-> data[k]]
  IN  saveRepetitionData(kept)

clearAllRepetitionData == NoItem

\* The record of a question that has none.
DefaultData(questionId, now) ==
  [questionId |-> questionId, easeFactor |-> Lit(25), interval |-> 1,
   repetitions |-> 0, nextReview |-> now, lastResult |-> "null"]


\* Variant: a read refreshes the stored record's nextReview.
getQuestionData_Touch(item, questionId, now) ==
  LET allData == getRepetitionData(item)
  IN  IF questionId \in DOMAIN allData
      THEN [allData[questionId] EXCEPT !.nextReview = now]
      ELSE DefaultData(questionId, now)

getQuestionData(item, questionId, now) ==
  LET allData == getRepetitionData(item)
  IN  IF questionId \in DOMAIN allData
      THEN allData[questionId]
      ELSE DefaultData(questionId, now)


\* Variant: the repetitions === 1 tier is missing.
onCorrect_NoSecondTier(data) ==
  LET interval == IF data.repetitions = 0 THEN 1
                  ELSE MathRound(DMulInt(data.easeFactor, data.interval))
  IN  [data EXCEPT !.interval = interval,
                   !.repetitions = data.repetitions + 1,
                   !.easeFactor = MathMax(Lit(13), DAdd(data.easeFactor, Lit(1))),
                   !.lastResult = "correct"]

\* Variant: repetitions is incremented before the interval tier is chosen.
onCorrect_TierShift(data) ==
  LET reps     == data.repetitions + 1
      interval == IF reps = 0 THEN 1
                  ELSE IF reps = 1 THEN 6
                  ELSE MathRound(DMulInt(data.easeFactor, data.interval))
  IN  [data EXCEPT !.interval = interval,
                   !.repetitions = reps,
                   !.easeFactor = MathMax(Lit(13), DAdd(data.easeFactor, Lit(1))),
                   !.lastResult = "correct"]

\* Variant: a correct answer leaves the ease factor as it was.
onCorrect_KeepEase(data) ==
  LET interval == IF data.repetitions = 0 THEN 1
                  ELSE IF data.repetitions = 1 THEN 6
                  ELSE MathRound(DMulInt(data.easeFactor, data.interval))
  IN  [data EXCEPT !.interval = interval,
                   !.repetitions = data.repetitions + 1,
                   !.easeFactor = MathMax(Lit(13), data.easeFactor),
                   !.lastResult = "correct"]

\* Variant: the ease factor is also capped at 2.5 from above.
onCorrect_Capped(data) ==
  LET interval == IF data.repetitions = 0 THEN 1
                  ELSE IF data.repetitions = 1 THEN 6
                  ELSE MathRound(DMulInt(data.easeFactor, data.interval))
  IN  [data EXCEPT !.interval = interval,
                   !.repetitions = data.repetitions + 1,
                   !.easeFactor = MathMin(Lit(25),
                                    MathMax(Lit(13), DAdd(data.easeFactor, Lit(1)))),
                   !.lastResult = "correct"]

\* The isCorrect branch of updateRepetition.
onCorrect(data) ==
  LET interval == IF data.repetitions = 0 THEN 1
                  ELSE IF data.repetitions = 1 THEN 6
                  ELSE MathRound(DMulInt(data.easeFactor, data.interval))
  IN  [data EXCEPT !.interval = interval,
                   !.repetitions = data.repetitions + 1,
                   !.easeFactor = MathMax(Lit(13), DAdd(data.easeFactor, Lit(1))),
                   !.lastResult = "correct"]


\* Variant: no Math.max(1.3, ...) on a miss.
onIncorrect_NoFloor(data) ==
  [data EXCEPT !.repetitions = 0,
               !.interval = 1,
               !.easeFactor = DSub(data.easeFactor, Lit(3)),
               !.lastResult = "incorrect"]

\* Variant: a miss leaves the interval as it was.
onIncorrect_KeepInterval(data) ==
  [data EXCEPT !.repetitions = 0,
               !.easeFactor = MathMax(Lit(13), DSub(data.easeFactor, Lit(3))),
               !.lastResult = "incorrect"]

\* Variant: a miss leaves the repetition count as it was.
onIncorrect_KeepRepetitions(data) ==
  [data EXCEPT !.interval = 1,
               !.easeFactor = MathMax(Lit(13), DSub(data.easeFactor, Lit(3))),
               !.lastResult = "incorrect"]

\* Variant: a miss halves the interval instead of resetting it.
onIncorrect_HalveInterval(data) ==
  [data EXCEPT !.repetitions = 0,
               !.interval = IF data.interval \div 2 < 1 THEN 1
                            ELSE data.interval \div 2,
               !.easeFactor = MathMax(Lit(13), DSub(data.easeFactor, Lit(3))),
               !.lastResult = "incorrect"]

\* The else branch of updateRepetition.
onIncorrect(data) ==
  [data EXCEPT !.repetitions = 0,
               !.interval = 1,
               !.easeFactor = MathMax(Lit(13), DSub(data.easeFactor, Lit(3))),
               !.lastResult = "incorrect"]


\* Variant: nextReview is the bare interval, Date.now() left out.
updateRepetition_NoNow(item, questionId, isCorrect, now) ==
  LET allData == getRepetitionData(item)
      data    == getQuestionData(item, questionId, now)
      step    == IF isCorrect THEN onCorrect(data) ELSE onIncorrect(data)
      next    == [step EXCEPT !.nextReview = step.interval * Day]
      newAll  == [k \in DOMAIN allData \cup {questionId} |->
                    IF k = questionId THEN next ELSE allData[k]]
  IN  [ret |-> next, item |-> saveRepetitionData(newAll)]

\* Variant: allData[questionId] = data is left out, so the object saved is
\* the one loaded.
updateRepetition_NoAssign(item, questionId, isCorrect, now) ==
  LET allData == getRepetitionData(item)
      data    == getQuestionData(item, questionId, now)
      step    == IF isCorrect THEN onCorrect(data) ELSE onIncorrect(data)
      next    == [step EXCEPT !.nextReview = now + step.interval * Day]
  IN  [ret |-> next, item |-> saveRepetitionData(allData)]

\* Variant: only the record of the answered question is saved.
updateRepetition_OnlyOwn(item, questionId, isCorrect, now) ==
  LET data    == getQuestionData(item, questionId, now)
      step    == IF isCorrect THEN onCorrect(data) ELSE onIncorrect(data)
      next    == [step EXCEPT !.nextReview = now + step.interval * Day]
      newAll  == [k \in {questionId} |-> next]
  IN  [ret |-> next, item |-> saveRepetitionData(newAll)]

\* Variant: nextReview is computed from the interval the record had before
\* the answer.
updateRepetition_StaleInterval(item, questionId, isCorrect, now) ==
  LET allData == getRepetitionData(item)
      data    == getQuestionData(item, questionId, now)
      step    == IF isCorrect THEN onCorrect(data) ELSE onIncorrect(data)
      next    == [step EXCEPT !.nextReview = now + data.interval * Day]
      newAll  == [k \in DOMAIN allData \cup {questionId} |->
                    IF k = questionId THEN next ELSE allData[k]]
  IN  [ret |-> next, item |-> saveRepetitionData(newAll)]

\* The pair (returned record, item written to localStorage).
updateRepetition(item, questionId, isCorrect, now) ==
  LET allData == getRepetitionData(item)
      data    == getQuestionData(item, questionId, now)
      step    == IF isCorrect THEN onCorrect(data) ELSE onIncorrect(data)
      next    == [step EXCEPT !.nextReview = now + step.interval * Day]
      newAll  == [k \in DOMAIN allData \cup {questionId} |->
                    IF k = questionId THEN next ELSE allData[k]]
  IN  [ret |-> next, item |-> saveRepetitionData(newAll)]

\* updateRepetition reads the item twice: getRepetitionData at line 65
\* (allData, read from `first`) and, inside getQuestionData at line 66,
\* getRepetitionData again (data, read from `second`).  Another tab's save
\* may land between the two.
updateRepetitionReads(first, second, questionId, isCorrect, now) ==
  LET allData == getRepetitionData(first)
      data    == getQuestionData(second, questionId, now)
      step    == IF isCorrect THEN onCorrect(data) ELSE onIncorrect(data)
      next    == [step EXCEPT !.nextReview = now + step.interval * Day]
      newAll  == [k \in DOMAIN allData \cup {questionId} |->
                    IF k = questionId THEN next ELSE allData[k]]
  IN  [ret |-> next, item |-> saveRepetitionData(newAll)]

\* ------------------------------------------------------------- queries
\* Variant: a missed question scores easeFactor * 10.
getPriorityScore_MissedByEase(item, questionId, now) ==
  LET data        == getQuestionData(item, questionId, now)
      daysOverdue == (now - data.nextReview) \div Day
  IN  IF data.lastResult = "null" THEN Int2D(50)
      ELSE IF data.lastResult = "incorrect"
           THEN DMulInt(data.easeFactor, 10)
      ELSE IF daysOverdue > 0
           THEN DAdd(Int2D(30), MathMin(Int2D(daysOverdue * 5), Int2D(50)))
      ELSE DMulInt(data.easeFactor, 5)

\* Variant: the overdue score lacks its base of 30.
getPriorityScore_OverdueFromZero(item, questionId, now) ==
  LET data        == getQuestionData(item, questionId, now)
      daysOverdue == (now - data.nextReview) \div Day
  IN  IF data.lastResult = "null" THEN Int2D(50)
      ELSE IF data.lastResult = "incorrect"
           THEN DSub(Int2D(100), DMulInt(data.easeFactor, 10))
      ELSE IF daysOverdue > 0
           THEN MathMin(Int2D(daysOverdue * 5), Int2D(50))
      ELSE DMulInt(data.easeFactor, 5)

getPriorityScore(item, questionId, now) ==
  LET data        == getQuestionData(item, questionId, now)
      daysOverdue == (now - data.nextReview) \div Day
  IN  IF data.lastResult = "null" THEN Int2D(50)
      ELSE IF data.lastResult = "incorrect"
           THEN DSub(Int2D(100), DMulInt(data.easeFactor, 10))
      ELSE IF daysOverdue > 0
           THEN DAdd(Int2D(30), MathMin(Int2D(daysOverdue * 5), Int2D(50)))
      ELSE DMulInt(data.easeFactor, 5)

\* The sign of the comparator (a, b) => priorityB - priorityA.  Each of the
\* two getPriorityScore calls reads the clock itself: ta and tb.
Comparator(item, a, b, ta, tb) ==
  LET priorityA == getPriorityScore(item, a.id, ta)
      priorityB == getPriorityScore(item, b.id, tb)
  IN  IF DLess(priorityA, priorityB) THEN 1
      ELSE IF DLess(priorityB, priorityA) THEN -1
      ELSE 0

\* Array.prototype.sort is stable: an item goes behind every item already
\* placed for which the comparator (priorityB - priorityA) is not positive.
RECURSIVE SortedInsert(_, _, _, _)
SortedInsert(item, sorted, q, now) ==
  IF sorted = <<>> THEN <<q>>
  ELSE IF Comparator(item, Head(sorted), q, now, now) > 0
       THEN <<q>> \o sorted
       ELSE <<Head(sorted)>> \o SortedInsert(item, Tail(sorted), q, now)

\* The result of the sort when the clock stands still while it runs.
RECURSIVE StableSort(_, _, _)
StableSort(item, questions, now) ==
  IF questions = <<>> THEN <<>>
  ELSE SortedInsert(item,
         StableSort(item, SubSeq(questions, 1, Len(questions) - 1), now),
         questions[Len(questions)], now)

\* The comparator answers alike for every pair of items whenever it is
\* called while the clock runs from `from` to `to`.
ConsistentComparator(item, questions, from, to) ==
  \A i \in 1..Len(questions), j \in 1..Len(questions) : i # j =>
    \A ta \in from..to : \A tb \in ta..to :
      Comparator(item, questions[i], questions[j], ta, tb)
        = Comparator(item, questions[i], questions[j], from, from)

Reorderings(questions) ==
  LET n == Len(questions)
  IN  {[i \in 1..n |-> questions[p[i]]] :
         p \in {f \in [1..n -> 1..n] : \A i \in 1..n, j \in 1..n :
                                         f[i] = f[j] => i = j}}

\* The arrays sortByPriority can return when the clock runs from `from` to
\* `to` during the call.  With a comparator that is not consistent the
\* order Array.prototype.sort produces is implementation-defined.
sortByPriority(item, questions, from, to) ==
  IF ConsistentComparator(item, questions, from, to)
  THEN {StableSort(item, questions, from)}
  ELSE Reorderings(questions)

\* The callback of questions.filter in getQuestionsForReview.
ReviewFilter(item, q, now) ==
  LET data == getQuestionData(item, q.id, now)
  IN  IF data.lastResult = "null" THEN TRUE
      ELSE IF data.lastResult = "incorrect" THEN TRUE
      ELSE data.nextReview <= now

getQuestionsForReview(item, questions, now) ==
  SelectSeq(questions, LAMBDA q : ReviewFilter(item, q, now))


\* Variant: a missed question is due only once its nextReview has come.
CountFilter_NoIncorrect(item, id, now) ==
  LET data == getQuestionData(item, id, now)
  IN  IF data.lastResult = "null" THEN TRUE
      ELSE data.nextReview <= now

\* Variant: due only when nextReview is strictly in the past.
CountFilter_Strict(item, id, now) ==
  LET data == getQuestionData(item, id, now)
  IN  IF data.lastResult = "null" THEN TRUE
      ELSE IF data.lastResult = "incorrect" THEN TRUE
      ELSE data.nextReview < now

\* The callback of questionIds.filter in getReviewCount.
CountFilter(item, id, now) ==
  LET data == getQuestionData(item, id, now)
  IN  IF data.lastResult = "null" THEN TRUE
      ELSE IF data.lastResult = "incorrect" THEN TRUE
      ELSE data.nextReview <= now

getReviewCount(item, questionIds, now) ==
  Len(SelectSeq(questionIds, LAMBDA id : CountFilter(item, id, now)))


\* Variant: the final else branch (learning++) is missing.
Bucket_NoElse(allData, id, now) ==
  IF id \notin DOMAIN allData THEN "notStarted"
  ELSE IF allData[id].lastResult = "null" THEN "notStarted"
  ELSE IF allData[id].lastResult = "incorrect" THEN "needsReview"
  ELSE IF allData[id].interval >= 21 /\ allData[id].repetitions >= 3 THEN "mastered"
  ELSE IF allData[id].nextReview <= now THEN "needsReview"
  ELSE "uncounted"

\* Variant: the due test comes before the mastered test.
Bucket_DueFirst(allData, id, now) ==
  IF id \notin DOMAIN allData THEN "notStarted"
  ELSE IF allData[id].lastResult = "null" THEN "notStarted"
  ELSE IF allData[id].lastResult = "incorrect" THEN "needsReview"
  ELSE IF allData[id].nextReview <= now THEN "needsReview"
  ELSE IF allData[id].interval >= 21 /\ allData[id].repetitions >= 3 THEN "mastered"
  ELSE "learning"

\* The bucket getRepetitionStats counts one id in.
Bucket(allData, id, now) ==
  IF id \notin DOMAIN allData THEN "notStarted"
  ELSE IF allData[id].lastResult = "null" THEN "notStarted"
  ELSE IF allData[id].lastResult = "incorrect" THEN "needsReview"
  ELSE IF allData[id].interval >= 21 /\ allData[id].repetitions >= 3 THEN "mastered"
  ELSE IF allData[id].nextReview <= now THEN "needsReview"
  ELSE "learning"

getRepetitionStats(item, questionIds, now) ==
  LET allData  == getRepetitionData(item)
      count(b) == Cardinality({i \in 1..Len(questionIds) :
                                 Bucket(allData, questionIds[i], now) = b})
  IN  [mastered |-> count("mastered"), learning |-> count("learning"),
       needsReview |-> count("needsReview"), notStarted |-> count("notStarted")]

\* ------------------------------------------------------------- exceptions
\* The operations again, with the TypeError they raise when getRepetitionData
\* has returned a value that is not an object.  Reading a property of null
\* throws; reading one of a number, a string, a boolean or an array gives
\* undefined; assigning one on a number, a string or a boolean throws, the
\* module being strict code; assigning one on an array succeeds.
getQuestionDataOutcome(item, questionId, now) ==
  IF ReturnedType(item) = "null" THEN [threw |-> TRUE]
  ELSE [threw |-> FALSE, ret |-> getQuestionData(item, questionId, now)]

\* Line 66 throws on null; line 91 throws on a number, a string or a
\* boolean.  Nothing is saved then.  On an array line 91 sets a property
\* that JSON.stringify leaves out: the record is returned and the text
\* written is the array again.
updateRepetitionOutcome(item, questionId, isCorrect, now) ==
  LET r == updateRepetition(item, questionId, isCorrect, now)
  IN  IF ReturnedType(item) = "object"
      THEN [threw |-> FALSE, ret |-> r.ret, item |-> r.item]
      ELSE IF ReturnedType(item) = "array"
           THEN [threw |-> FALSE, ret |-> r.ret, item |-> item]
      ELSE [threw |-> TRUE, item |-> item]

\* The forEach callback reads allData[id]: it throws on null at the first id.
getRepetitionStatsOutcome(item, questionIds, now) ==
  IF ReturnedType(item) = "null" /\ questionIds # <<>> THEN [threw |-> TRUE]
  ELSE [threw |-> FALSE, ret |-> getRepetitionStats(item, questionIds, now)]

\* delete data[id] throws on null and does nothing on a number, a string, a
\* boolean or an array; JSON.stringify of such a value is the text that was
\* parsed.
clearRepetitionForChapterOutcome(item, questionIds) ==
  IF ReturnedType(item) = "null" /\ questionIds # <<>>
  THEN [threw |-> TRUE, item |-> item]
  ELSE IF ReturnedType(item) # "object" THEN [threw |-> FALSE, item |-> item]
  ELSE [threw |-> FALSE, item |-> clearRepetitionForChapter(item, questionIds)]

\* ------------------------------------------------------------- answer handlers
\* handleSelectAnswer of ReviewQuiz (src/pages/Results.tsx).  setItemThrows:
\* localStorage.setItem of the repetition data raises (storage full or
\* disabled); saveRepetitionData and updateRepetition have no try, and the
\* handler calls updateRepetition before and outside its own try, so the
\* exception leaves the handler.  loggedIn: useAuth().user is set; when it
\* is null, user!.id raises while the arguments of upsert are evaluated,
\* inside the try, and upsert is not called.
\* recorded: the call that stores the answer, when the handler reaches it.
ReviewQuiz_handleSelectAnswer(item, showAnswer, loggedIn, questionId, isCorrect, now, setItemThrows) ==
  IF showAnswer
  THEN [threw |-> FALSE, updated |-> FALSE, recorded |-> "none", item |-> item]
  ELSE IF setItemThrows
  THEN [threw |-> TRUE, updated |-> FALSE, recorded |-> "none", item |-> item]
  ELSE [threw |-> FALSE, updated |-> TRUE,
        recorded |-> IF loggedIn THEN "upsert" ELSE "none",
        item |-> updateRepetition(item, questionId, isCorrect, now).item]

\* handleSelectAnswer of Quiz (unnamed/part_002).  unknown: the question's
\* correct_answer is 'UNKNOWN'.  saveAnswerThrows: the write of the offline
\* progress inside saveAnswer raises; saveAnswer is called outside any try.
Quiz_handleSelectAnswer(item, showAnswer, unknown, isOnline, loggedIn, questionId, isCorrect, now, setItemThrows, saveAnswerThrows) ==
  IF showAnswer \/ unknown
  THEN [threw |-> FALSE, updated |-> FALSE, recorded |-> "none", item |-> item]
  ELSE IF setItemThrows
  THEN [threw |-> TRUE, updated |-> FALSE, recorded |-> "none", item |-> item]
  ELSE IF ~isOnline
  THEN [threw |-> saveAnswerThrows, updated |-> TRUE, recorded |-> "saveAnswer",
        item |-> updateRepetition(item, questionId, isCorrect, now).item]
  ELSE [threw |-> FALSE, updated |-> TRUE,
        recorded |-> IF loggedIn THEN "upsert" ELSE "none",
        item |-> updateRepetition(item, questionId, isCorrect, now).item]

\* The question objects of a list of ids: each carries its id and, as its
\* other content, its position in the list.
Questions(ids) == [i \in 1..Len(ids) |-> [id |-> ids[i], tag |-> i]]

\* ------------------------------------------------------------- state
VARIABLES
  localStorage,  \* the item stored under STORAGE_KEY
  now,           \* Date.now(), in days
  last,          \* the latest call: its name, arguments, time and result
  hist,          \* per id, the answers recorded since its record was created
  written,       \* per id, the record its latest update returned (until deleted)
  deleted,       \* ids whose stored record was deleted and not updated since
  pending        \* per browser tab, the mutation it has loaded for and not saved

vars == <<localStorage, now, last, hist, written, deleted, pending>>

\* Browser tabs sharing the one localStorage.
Tabs == {"tab1", "tab2"}

\* No tab is inside a mutation.
NoPending == [t \in Tabs |-> [pc |-> "idle"]]

RECURSIVE SumLen(_, _)
SumLen(h, S) ==
  IF S = {} THEN 0
  ELSE LET x == CHOOSE y \in S : TRUE IN Len(h[x]) + SumLen(h, S \ {x})

Init ==
  /\ localStorage = NoItem
  /\ now = 0
  /\ last = [op |-> "none"]
  /\ hist = [id \in Ids |-> <<>>]
  /\ written = [k \in {} |-> 0]
  /\ deleted = {}
  /\ pending = NoPending

\* The user answers question id.  The call is logged with the record it
\* started from (data, line 66) and the record it returned.
Recorded(id, isCorrect) ==
  /\ LET r == updateRepetition(localStorage, id, isCorrect, now)
     IN  /\ localStorage' = r.item
         /\ last' = [op |-> "update", id |-> id, isCorrect |-> isCorrect,
                     at |-> now, ret |-> r.ret,
                     from |-> getQuestionData(localStorage, id, now)]
         /\ written' = [k \in DOMAIN written \cup {id} |->
                          IF k = id THEN r.ret ELSE written[k]]
  /\ hist' = [hist EXCEPT ![id] = Append(@, isCorrect)]
  /\ deleted' = deleted \ {id}
  /\ UNCHANGED <<now, pending>>

Update(id, isCorrect) ==
  /\ SumLen(hist, Ids) < MaxAnswers
  /\ Recorded(id, isCorrect)

\* The user resets a chapter: the records of its questions are dropped.
DeleteMany(ids) ==
  /\ localStorage' = clearRepetitionForChapter(localStorage, ids)
  /\ last' = [op |-> "deleteMany", ids |-> ids, at |-> now]
  /\ hist' = [id \in Ids |-> IF id \in Range(ids) THEN <<>> ELSE hist[id]]
  /\ written' = [k \in DOMAIN written \ Range(ids) |-> written[k]]
  /\ deleted' = deleted \cup (Range(ids) \cap DOMAIN getRepetitionData(localStorage))
  /\ UNCHANGED <<now, pending>>

\* The user resets all progress.
DeleteAll ==
  /\ localStorage' = clearAllRepetitionData
  /\ last' = [op |-> "deleteAll", at |-> now]
  /\ hist' = [id \in Ids |-> <<>>]
  /\ written' = [k \in {} |-> 0]
  /\ deleted' = deleted \cup DOMAIN getRepetitionData(localStorage)
  /\ UNCHANGED <<now, pending>>

\* Variant: getOne stores the record it returns, so the default of an
\* unseen id is written back.
GetOne_WriteBack(id) ==
  /\ last' = [op |-> "getOne", id |-> id, at |-> now,
              ret |-> getQuestionData(localStorage, id, now),
              prev |-> IF last.op = "getOne" /\ last.id = id
                       THEN <<[ret |-> last.ret, at |-> last.at]>> ELSE <<>>]
  /\ localStorage' =
       LET allData == getRepetitionData(localStorage)
       IN  saveRepetitionData([k \in DOMAIN allData \cup {id} |->
                                 getQuestionData(localStorage, k, now)])
  /\ UNCHANGED <<now, hist, written, deleted, pending>>

\* prev: the result and time of the call just before, when that call was
\* a getOne of the same id (time may have passed in between).
GetOne(id) ==
  /\ last' = [op |-> "getOne", id |-> id, at |-> now,
              ret |-> getQuestionData(localStorage, id, now),
              prev |-> IF last.op = "getOne" /\ last.id = id
                       THEN <<[ret |-> last.ret, at |-> last.at]>> ELSE <<>>]
  /\ UNCHANGED <<localStorage, now, hist, written, deleted, pending>>

Stats(ids) ==
  /\ last' = [op |-> "stats", ids |-> ids, at |-> now,
              ret |-> getRepetitionStats(localStorage, ids, now)]
  /\ UNCHANGED <<localStorage, now, hist, written, deleted, pending>>

\* A day passes.
Tick ==
  /\ now < MaxNow
  /\ now' = now + 1
  /\ UNCHANGED <<localStorage, last, hist, written, deleted, pending>>

Next ==
  \/ \E id \in Ids, isCorrect \in BOOLEAN : Update(id, isCorrect)
  \/ \E ids \in IdLists : DeleteMany(ids)
  \/ DeleteAll
  \/ \E id \in Ids : GetOne(id)
  \/ \E ids \in IdLists : Stats(ids)
  \/ Tick

Spec == Init /\ [][Next]_vars

\* ------------------------------------------------------------- claims
\* The object a load returns in the current state.
Stored == getRepetitionData(localStorage)

AtLeast(a, b) == ~DLess(a, b)

\* The record of id in a mapping, as a sequence of length 0 or 1.
RecordOf(data, id) == IF id \in DOMAIN data THEN <<data[id]>> ELSE <<>>

\* The last n answers recorded for id were all isCorrect.
Streak(id, n, isCorrect) ==
  /\ Len(hist[id]) >= n
  /\ \A i \in (Len(hist[id]) - n + 1)..Len(hist[id]) : hist[id][i] = isCorrect

\* C1. Ease floor: from an empty store, after any update, deleteMany and
\* deleteAll calls, every persisted record and every record update or getOne
\* returns has easeFactor >= 1.3.
C1_EaseFloor ==
  /\ \A k \in DOMAIN Stored : AtLeast(Stored[k].easeFactor, Lit(13))
  /\ last.op \in {"update", "getOne"} => AtLeast(last.ret.easeFactor, Lit(13))

\* Five misses in a row: the fifth would take 1.3 to 1.0 without the floor.
C1_Witness ==
  /\ last.op = "update" /\ ~last.isCorrect
  /\ Streak(last.id, 5, FALSE)
  /\ last.ret.easeFactor = Lit(13)

\* C2. Interval tiers: on a question with no record, three correct answers
\* in a row give interval 1, then 6, then 16.
C2_IntervalTiers ==
  last.op = "update" =>
    /\ hist[last.id] = <<TRUE>> => last.ret.interval = 1
    /\ hist[last.id] = <<TRUE, TRUE>> => last.ret.interval = 6
    /\ hist[last.id] = <<TRUE, TRUE, TRUE>> => last.ret.interval = 16

C2_Witness ==
  /\ last.op = "update"
  /\ hist[last.id] = <<TRUE, TRUE, TRUE>>
  /\ last.ret.interval = 16
  /\ last.ret.repetitions = 3

\* C3. Reset on miss: whatever the record was, an incorrect answer returns
\* and stores repetitions = 0, interval = 1, lastResult = incorrect.
C3_ResetOnMiss ==
  last.op = "update" /\ ~last.isCorrect =>
    /\ last.ret.repetitions = 0
    /\ last.ret.interval = 1
    /\ last.ret.lastResult = "incorrect"
    /\ last.id \in DOMAIN Stored
    /\ Stored[last.id].repetitions = 0
    /\ Stored[last.id].interval = 1
    /\ Stored[last.id].lastResult = "incorrect"

\* A miss that ends a streak of three correct answers (interval 16 before).
C3_Witness ==
  /\ last.op = "update" /\ ~last.isCorrect
  /\ Len(hist[last.id]) = 4
  /\ SubSeq(hist[last.id], 1, 3) = <<TRUE, TRUE, TRUE>>
  /\ last.ret.interval = 1

\* C4. A question with no record answered incorrectly at time now: update
\* returns and stores repetitions 0, interval 1, easeFactor 2.2, lastResult
\* incorrect, nextReview now + one day.
C4_FreshIncorrect ==
  last.op = "update" /\ hist[last.id] = <<FALSE>> =>
    /\ last.ret = [questionId |-> last.id, easeFactor |-> Lit(22), interval |-> 1,
                   repetitions |-> 0, nextReview |-> last.at + Day,
                   lastResult |-> "incorrect"]
    /\ last.id \in DOMAIN Stored
    /\ Stored[last.id] = last.ret

C4_Witness ==
  /\ last.op = "update" /\ hist[last.id] = <<FALSE>>
  /\ last.at > 0
  /\ last.ret.nextReview = last.at + Day

StatsTotal(s) == s.mastered + s.learning + s.needsReview + s.notStarted

\* C6. Bucket exhaustiveness: for every id list, store state and time, the
\* four counts of stats add up to the length of the list.
C6_BucketSum ==
  /\ \A ids \in IdLists :
       StatsTotal(getRepetitionStats(localStorage, ids, now)) = Len(ids)
  /\ last.op = "stats" => StatsTotal(last.ret) = Len(last.ids)

\* A list of a mastered id and an id without a record.
C6_Witness ==
  /\ last.op = "stats" /\ Len(last.ids) = 2
  /\ last.ret.mastered = 1 /\ last.ret.notStarted = 1

\* C8. Deletion: once the stored record of id is deleted (deleteMany with id
\* listed, or deleteAll) and id is not updated again, getOne(id) returns the
\* default record and stats counts id as notStarted.
C8_Deletion ==
  /\ \A id \in deleted :
       /\ getQuestionData(localStorage, id, now) = DefaultData(id, now)
       /\ getRepetitionStats(localStorage, <<id>>, now) =
            [mastered |-> 0, learning |-> 0, needsReview |-> 0, notStarted |-> 1]
  /\ last.op = "getOne" /\ last.id \in deleted =>
       last.ret = DefaultData(last.id, last.at)
  /\ last.op = "stats" =>
       last.ret.notStarted >=
         Cardinality({i \in 1..Len(last.ids) : last.ids[i] \in deleted})

C8_Witness ==
  /\ last.op = "getOne" /\ last.id \in deleted
  /\ last.ret.lastResult = "null"

\* C9. The record update returns is the record stored: a later getOne of the
\* id, with no update or delete of it in between, returns that record, at
\* any later time.
C9_UpdatePersists ==
  /\ \A id \in DOMAIN written :
       getQuestionData(localStorage, id, now) = written[id]
  /\ last.op = "getOne" /\ last.id \in DOMAIN written =>
       last.ret = written[last.id]

\* A getOne on a later day than the update.
C9_Witness ==
  /\ last.op = "getOne" /\ last.id \in DOMAIN written
  /\ last.at + written[last.id].interval * Day > written[last.id].nextReview

\* C10 as stated. Idempotent read: two getOne(id) calls with no mutation in
\* between return records equal in every field, with or without a stored
\* record, even when time passes between the calls.
C10_IdempotentRead ==
  last.op = "getOne" /\ last.prev # <<>> => last.ret = last.prev[1].ret

\* C10 amended. With a stored record the two results are equal in every
\* field; without one each result is the default record whose nextReview is
\* the time of its own call, so the two agree in the other five fields, and
\* in nextReview exactly when no time passed.
C10_IdempotentReadAmended ==
  last.op = "getOne" /\ last.prev # <<>> =>
    IF last.id \in DOMAIN Stored
    THEN last.ret = last.prev[1].ret
    ELSE /\ last.ret = DefaultData(last.id, last.at)
         /\ last.prev[1].ret = DefaultData(last.id, last.prev[1].at)

\* Two reads of an id without a record, a day apart.
C10_Witness ==
  /\ last.op = "getOne" /\ last.prev # <<>>
  /\ last.prev[1].at < last.at
  /\ last.id \notin DOMAIN Stored

\* C15. deleteMany is idempotent and total: on every reachable store and for
\* every id list, also one naming ids without a record, and on the absent
\* store, deleteMany(ids) leaves exactly the records of the other ids, and
\* applying it a second time leaves the same persisted mapping; the store
\* after a deleteMany call is unchanged by the same call again.
C15_DeleteManyIdempotent ==
  /\ \A ids \in IdLists :
       LET once  == clearRepetitionForChapter(localStorage, ids)
           twice == clearRepetitionForChapter(once, ids)
       IN  /\ getRepetitionData(once) =
                [k \in DOMAIN Stored \ Range(ids) |-> Stored[k]]
           /\ getRepetitionData(twice) = getRepetitionData(once)
  /\ last.op = "deleteMany" =>
       getRepetitionData(clearRepetitionForChapter(localStorage, last.ids)) = Stored

\* deleteMany was called with two ids: the record of the first has been
\* deleted, the second had no record to delete.
C15_Witness ==
  /\ last.op = "deleteMany" /\ Len(last.ids) = 2
  /\ last.ids[1] \in deleted
  /\ last.ids[2] \notin deleted
  /\ Stored = [k \in {} |-> 0]

\* C21. For both outcomes, update executed at time `at` sets nextReview to
\* at + interval' days, interval' being the interval of the returned record;
\* hence after a correct answer nextReview is at least one whole day away
\* and the id is not due at any time before it.
C21_NextReview ==
  last.op = "update" =>
    /\ last.ret.nextReview = last.at + last.ret.interval * Day
    /\ last.isCorrect =>
         /\ last.ret.nextReview >= last.at + Day
         /\ now < last.ret.nextReview =>
              /\ ~CountFilter(localStorage, last.id, now)
              /\ ~ReviewFilter(localStorage, [id |-> last.id], now)

\* The second correct answer in a row gave interval 6; a day later the
\* question is still not due.
C21_Witness ==
  /\ last.op = "update" /\ last.isCorrect
  /\ last.ret.interval = 6
  /\ last.ret.nextReview = last.at + 6 * Day
  /\ now = last.at + Day
  /\ ~CountFilter(localStorage, last.id, now)

\* The number of correct answers at the end of a sequence of answers.
RECURSIVE TrailingCorrect(_)
TrailingCorrect(h) ==
  IF h = <<>> \/ ~h[Len(h)] THEN 0
  ELSE 1 + TrailingCorrect(SubSeq(h, 1, Len(h) - 1))

\* C22. repetitions equals the number of consecutive correct answers
\* recorded for the id since its most recent incorrect answer or deletion
\* (or since the start): each correct update adds exactly 1, each incorrect
\* update sets it to 0.
C22_RepetitionsCount ==
  /\ \A k \in DOMAIN Stored : Stored[k].repetitions = TrailingCorrect(hist[k])
  /\ last.op = "update" =>
       last.ret.repetitions =
         IF last.isCorrect THEN last.from.repetitions + 1 ELSE 0

\* Two correct answers, then a miss on the same question: the count went
\* from 2 to 0.
C22_Witness ==
  /\ last.op = "update" /\ ~last.isCorrect
  /\ last.from.repetitions = 2
  /\ last.id \in DOMAIN Stored
  /\ Stored[last.id].repetitions = 0
  /\ Len(hist[last.id]) = 3

\* C23. The easeFactor of every record stays within the range 1.3 to 2.5
\* after any sequence of updates.
C23_EaseRange ==
  /\ \A k \in DOMAIN Stored :
       /\ AtLeast(Stored[k].easeFactor, Lit(13))
       /\ AtLeast(Lit(25), Stored[k].easeFactor)
  /\ last.op = "update" =>
       /\ AtLeast(last.ret.easeFactor, Lit(13))
       /\ AtLeast(Lit(25), last.ret.easeFactor)

\* The answers recorded for id are n correct ones and nothing else.
FreshStreak(id, n) == Len(hist[id]) = n /\ Streak(id, n, TRUE)

\* The interval of the third and later correct answers in a row.
GrownInterval ==
  (last.op = "update" /\ last.isCorrect /\ last.from.repetitions >= 2) =>
    last.ret.interval =
      MathRound(DMulInt(last.from.easeFactor, last.from.interval))

\* C24 as stated.  No upper bound is applied to easeFactor or interval:
\* n consecutive correct answers on a fresh id give easeFactor exactly
\* 2.5 + 0.1 * n (the double written 2.8 for n = 3), and from the third
\* consecutive correct answer on the interval is exactly
\* round(previous interval * previous easeFactor).
C24_ExactTenths ==
  /\ \A k \in DOMAIN Stored : \A n \in 1..Len(hist[k]) :
       FreshStreak(k, n) => Stored[k].easeFactor = Lit(25 + n)
  /\ GrownInterval

Abs(x) == IF x < 0 THEN -x ELSE x

\* C24 amended.  No upper bound is applied to easeFactor or interval:
\* every correct update sets easeFactor to the floating-point sum
\* easeFactor + 0.1, strictly above the previous value, so n consecutive
\* correct answers on a fresh id give 2.5 + 0.1 * n to within n * 10^-15
\* (720 units of the d component, 2^-56 / 10 each) but not always the
\* nearest double; and from the third consecutive
\* correct answer on the interval is exactly
\* round(previous interval * previous easeFactor), never capped.
C24_NearTenths ==
  /\ (last.op = "update" /\ last.isCorrect) =>
       /\ last.ret.easeFactor = DAdd(last.from.easeFactor, Lit(1))
       /\ DLess(last.from.easeFactor, last.ret.easeFactor)
  /\ \A k \in DOMAIN Stored : \A n \in 1..Len(hist[k]) :
       FreshStreak(k, n) =>
         /\ Stored[k].easeFactor.t = 25 + n
         /\ Abs(Stored[k].easeFactor.d) <= n * 720
  /\ GrownInterval

\* The third correct answer in a row on a fresh id: easeFactor is
\* 2.8000000000000003, one step above the double written 2.8, and the
\* interval is round(6 * 2.7) = 16.
C24_Witness ==
  /\ last.op = "update" /\ last.isCorrect
  /\ FreshStreak(last.id, 3)
  /\ last.ret.easeFactor # Lit(28)
  /\ DLess(Lit(28), last.ret.easeFactor)
  /\ last.ret.interval = 16
  /\ last.id \in DOMAIN Stored
  /\ Stored[last.id] = last.ret

\* C27. Every record persisted by any sequence of update, deleteMany and
\* deleteAll from an empty store has lastResult correct or incorrect (never
\* unset), interval >= 1, repetitions >= 0 and questionId equal to the key
\* it is stored under; lastResult = incorrect implies repetitions = 0 and
\* interval = 1, and lastResult = correct implies repetitions >= 1 and
\* easeFactor >= 1.4.
C27_RecordShape ==
  \A k \in DOMAIN Stored :
    LET r == Stored[k]
    IN  /\ r.lastResult \in {"correct", "incorrect"}
        /\ r.interval >= 1
        /\ r.repetitions >= 0
        /\ r.questionId = k
        /\ r.lastResult = "incorrect" => (r.repetitions = 0 /\ r.interval = 1)
        /\ r.lastResult = "correct" =>
             (r.repetitions >= 1 /\ AtLeast(r.easeFactor, Lit(14)))

\* Four misses bring q1 to the floor 1.3; the correct answer after them is
\* stored with easeFactor 1.4000000000000001 and repetitions 1.
C27_Witness ==
  /\ last.op = "update" /\ last.isCorrect
  /\ last.from.easeFactor = Lit(13) /\ last.from.lastResult = "incorrect"
  /\ last.id \in DOMAIN Stored
  /\ Stored[last.id].lastResult = "correct"
  /\ Stored[last.id].repetitions = 1
  /\ Stored[last.id].questionId = last.id
  /\ DLess(Stored[last.id].easeFactor, Lit(15))

\* ------------------------------------------------------------- queries on produced stores
\* A second specification for the read-only queries: the store is one the
\* program has produced (every question answered as one of QHistories says,
\* on day 0), the clock stands at any day up to MaxNowQ, and the queries
\* are applied to it.
MaxNowQ == 11

QIds == {"q1", "q2", "q3"}

QHistories ==
  {<<>>, <<TRUE>>, <<FALSE>>, <<TRUE, TRUE>>, <<FALSE, FALSE, FALSE, FALSE>>}

QLists == UNION {[1..n -> QIds] : n \in 0..Cardinality(QIds)}

\* The item after question id is answered as h says, starting at day t.
RECURSIVE Answered(_, _, _, _)
Answered(item, id, h, t) ==
  IF h = <<>> THEN item
  ELSE Answered(updateRepetition(item, id, Head(h), t).item, id, Tail(h), t)

RECURSIVE AnsweredAll(_, _, _)
AnsweredAll(item, h, S) ==
  IF S = {} THEN item
  ELSE LET id == CHOOSE x \in S : TRUE
       IN  AnsweredAll(Answered(item, id, h[id], 0), h, S \ {id})

InitQ ==
  /\ hist \in [QIds -> QHistories]
  /\ localStorage = AnsweredAll(NoItem, hist, QIds)
  /\ written = getRepetitionData(localStorage)
  /\ deleted = {}
  /\ pending = NoPending
  /\ now \in 0..MaxNowQ
  /\ last = [op |-> "none"]

Priority(id) ==
  /\ last' = [op |-> "priority", id |-> id, at |-> now,
              ret |-> getPriorityScore(localStorage, id, now)]
  /\ UNCHANGED <<localStorage, now, hist, written, deleted, pending>>

\* The clock may pass to the next day while the sort runs.
SortByPriority(ids) ==
  /\ \E end \in {now, now + Day} :
       /\ \E out \in sortByPriority(localStorage, Questions(ids), now, end) :
            last' = [op |-> "sort", questions |-> Questions(ids), at |-> now,
                     end |-> end, ret |-> out]
       /\ now' = end
  /\ UNCHANGED <<localStorage, hist, written, deleted, pending>>

\* The queries write nothing and their results do not depend on earlier
\* calls, so one query per behaviour reaches every (store, clock, call,
\* result) there is.
QueryPriority(id) == last.op = "none" /\ Priority(id)
QuerySort(ids) == last.op = "none" /\ SortByPriority(ids)

NextQ == \E id \in QIds : QueryPriority(id)

SpecQueries == InitQ /\ [][NextQ]_vars

\* The same stores, sorted on the days a record falls due or is ten days
\* overdue.
SortDays == {0, 1, 6, 11}

InitSort ==
  /\ hist \in [QIds -> QHistories]
  /\ localStorage = AnsweredAll(NoItem, hist, QIds)
  /\ written = getRepetitionData(localStorage)
  /\ deleted = {}
  /\ pending = NoPending
  /\ now \in SortDays
  /\ last = [op |-> "none"]

NextSort == \E ids \in QLists : QuerySort(ids)

SpecSort == InitSort /\ [][NextSort]_vars

Score(id) == getPriorityScore(localStorage, id, now)

\* The three records of the priority-ordering scenario, read at `now`.
MissedAtFloor(id) ==
  /\ id \in DOMAIN Stored
  /\ Stored[id].lastResult = "incorrect" /\ Stored[id].easeFactor = Lit(13)
TenDaysOverdue(id) ==
  /\ id \in DOMAIN Stored
  /\ Stored[id].lastResult = "correct" /\ now - Stored[id].nextReview = 10 * Day
NeverAnswered(id) == id \notin DOMAIN Stored

\* out holds the items of in, highest priority first as the priorities are
\* on day t, items of equal priority in input order.
SortedAt(in, out, t) ==
  LET pr == [i \in 1..Len(out) |-> getPriorityScore(localStorage, out[i].id, t)]
  IN  /\ Len(out) = Len(in)
      /\ \A i \in 1..Len(in) : \E j \in 1..Len(out) : out[j] = in[i]
      /\ \A i \in 1..Len(out), j \in 1..Len(out) :
           i < j => /\ ~DLess(pr[i], pr[j])
                    /\ pr[i] = pr[j] => out[i].tag < out[j].tag

\* C7. sortByPriority returns a permutation of its input in non-increasing
\* priority order (as the priorities are at some moment of the call), items
\* of equal priority in input order; and a missed item at easeFactor 1.3
\* (87) comes before a correct item ten days overdue (80), which comes
\* before a never-answered item (50), whatever the input order.
C7_SortByPriority ==
  /\ last.op = "sort" =>
       \E t \in last.at..last.end : SortedAt(last.questions, last.ret, t)
  /\ \A a \in QIds : MissedAtFloor(a) =>
       \A b \in QIds : TenDaysOverdue(b) =>
         \A c \in QIds : NeverAnswered(c) =>
           /\ Score(a) = Int2D(87) /\ Score(b) = Int2D(80) /\ Score(c) = Int2D(50)
           /\ \A ids \in {<<a, b, c>>, <<a, c, b>>, <<b, a, c>>,
                          <<b, c, a>>, <<c, a, b>>, <<c, b, a>>} :
                \A out \in sortByPriority(localStorage, Questions(ids),
                                          now, now + Day) :
                  <<out[1].id, out[2].id, out[3].id>> = <<a, b, c>>

\* The tiers of the priority scheme, read at `now`.
Incorrect(id) ==
  id \in DOMAIN Stored /\ Stored[id].lastResult = "incorrect"
OverdueCorrect(id) ==
  /\ id \in DOMAIN Stored
  /\ Stored[id].lastResult = "correct" /\ Stored[id].nextReview < now
NotYetDueCorrect(id) ==
  /\ id \in DOMAIN Stored
  /\ Stored[id].lastResult = "correct" /\ now <= Stored[id].nextReview
DaysOverdue(id) == (now - Stored[id].nextReview) \div Day
Min(m, n) == IF m < n THEN m ELSE n

\* C18 as stated. Priority tiers are strictly ranked: every incorrect record
\* scores higher than every overdue correct record, every overdue correct
\* record scores higher than a never-answered one (50), and a never-answered
\* one scores higher than every not-yet-due correct record.
C18_TiersStrict ==
  \A a \in QIds, b \in QIds :
    /\ (Incorrect(a) /\ OverdueCorrect(b)) => DLess(Score(b), Score(a))
    /\ (OverdueCorrect(a) /\ NeverAnswered(b)) => DLess(Score(b), Score(a))
    /\ (NeverAnswered(a) /\ NotYetDueCorrect(b)) => DLess(Score(b), Score(a))

\* C18 amended. The tiers overlap.  An incorrect record scores higher than
\* a never-answered one (50) when its easeFactor is below 5, and at least as
\* high as every overdue correct record when its easeFactor is below 2; an
\* overdue correct record scores 30 + min(5 * daysOverdue, 50), which is
\* higher than 50 only when it is more than 4 days overdue; a never-answered
\* record scores 50, higher than every not-yet-due correct record whose
\* easeFactor is below 10.
C18_TiersAmended ==
  \A a \in QIds :
    /\ NeverAnswered(a) => Score(a) = Int2D(50)
    /\ (Incorrect(a) /\ DLess(Stored[a].easeFactor, Int2D(5))) =>
         DLess(Int2D(50), Score(a))
    /\ (Incorrect(a) /\ DLess(Stored[a].easeFactor, Int2D(2))) =>
         \A b \in QIds : OverdueCorrect(b) => ~DLess(Score(a), Score(b))
    /\ OverdueCorrect(a) =>
         /\ Score(a) = Int2D(30 + Min(5 * DaysOverdue(a), 50))
         /\ DLess(Int2D(50), Score(a)) <=> DaysOverdue(a) > 4
    /\ (NotYetDueCorrect(a) /\ DLess(Stored[a].easeFactor, Int2D(10))) =>
         DLess(Score(a), Int2D(50))

\* priority was asked for a question missed once (easeFactor 2.2, score
\* 78) while another question, answered correctly, is ten days overdue
\* (80) and a third has never been answered (50).
C18_Witness ==
  /\ last.op = "priority" /\ last.at = now
  /\ Incorrect(last.id)
  /\ DLess(Int2D(50), last.ret)
  /\ \E b \in QIds : /\ OverdueCorrect(b) /\ DaysOverdue(b) = 10
                      /\ DLess(last.ret, Score(b))
  /\ \E c \in QIds : NeverAnswered(c)

\* ------------------------------------------------------------- updates of a stored document
\* A third specification: the program starts on a document already in
\* localStorage (left by an earlier session, an earlier version or an
\* import), holding one well-formed record for one question, and the user
\* answers from there.
MaxStoredAnswers == 1

StoredRecords(id) ==
  [questionId : {id},
   easeFactor : {Lit(13), Lit(25), Lit(26)},
   interval : {1, 6, 15},
   repetitions : {0, 1, 2},
   nextReview : {0},
   lastResult : {"correct", "incorrect"}]

InitStored ==
  /\ \E id \in Ids : \E rec \in StoredRecords(id) :
       localStorage = saveRepetitionData([k \in {id} |-> rec])
  /\ now = 0
  /\ last = [op |-> "none"]
  /\ hist = [id \in Ids |-> <<>>]
  /\ written = [k \in {} |-> 0]
  /\ deleted = {}
  /\ pending = NoPending

AnswerStored(id, isCorrect) ==
  /\ SumLen(hist, Ids) < MaxStoredAnswers
  /\ Update(id, isCorrect)

NextStored ==
  \/ \E id \in Ids, isCorrect \in BOOLEAN : AnswerStored(id, isCorrect)
  \/ \E id \in Ids : GetOne(id)
  \/ Tick

SpecStored == InitStored /\ [][NextStored]_vars

\* The update started from a stored record with these three fields.
StartedFrom(reps, interval, ease) ==
  /\ last.op = "update" /\ last.isCorrect
  /\ last.from.lastResult # "null"
  /\ last.from.repetitions = reps
  /\ last.from.interval = interval
  /\ last.from.easeFactor = ease

\* C5 as stated. A correct answer on a stored record with repetitions 1,
\* interval 6, easeFactor 2.5 yields repetitions 2, interval round(6 * 2.5)
\* = 15, easeFactor 2.6, lastResult correct.
C5_SecondCorrect ==
  StartedFrom(1, 6, Lit(25)) =>
    /\ last.ret.repetitions = 2
    /\ last.ret.interval = 15
    /\ last.ret.easeFactor = Lit(26)
    /\ last.ret.lastResult = "correct"

\* C5 amended. The same answer yields repetitions 2, interval 6 (the tier of
\* repetitions = 1; the product is used from repetitions >= 2 on),
\* easeFactor 2.6, lastResult correct.
C5_SecondCorrectAmended ==
  StartedFrom(1, 6, Lit(25)) =>
    /\ last.ret.repetitions = 2
    /\ last.ret.interval = 6
    /\ last.ret.easeFactor = Lit(26)
    /\ last.ret.lastResult = "correct"
    /\ last.ret.nextReview = last.at + 6 * Day
    /\ Stored[last.id] = last.ret

C5_Witness ==
  /\ StartedFrom(1, 6, Lit(25))
  /\ last.ret.interval = 6

\* ------------------------------------------------------------- every operation on produced stores
\* A further specification: the store is one the program has produced (each
\* question answered as one of RHistories says, on day 0), the clock stands
\* at one of RDays, and one operation of the library is applied to it.
RHistories ==
  {<<>>, <<TRUE>>, <<FALSE>>, <<TRUE, TRUE>>, <<TRUE, TRUE, TRUE>>,
   <<TRUE, TRUE, TRUE, TRUE>>}

\* The days on which the records of RHistories fall due (1, 6, 16, 45),
\* with the day before the first and the day after the last.
RDays == {0, 1, 2, 6, 16, 45, 46}

InitR ==
  /\ hist \in [Ids -> RHistories]
  /\ localStorage = AnsweredAll(NoItem, hist, Ids)
  /\ written = getRepetitionData(localStorage)
  /\ deleted = {}
  /\ pending = NoPending
  /\ now \in RDays
  /\ last = [op |-> "none"]

FilterDue(ids) ==
  /\ last' = [op |-> "filterDue", questions |-> Questions(ids), at |-> now,
              ret |-> getQuestionsForReview(localStorage, Questions(ids), now)]
  /\ UNCHANGED <<localStorage, now, hist, written, deleted, pending>>

DueCount(ids) ==
  /\ last' = [op |-> "dueCount", ids |-> ids, at |-> now,
              ret |-> getReviewCount(localStorage, ids, now)]
  /\ UNCHANGED <<localStorage, now, hist, written, deleted, pending>>

LoadAll ==
  /\ last' = [op |-> "loadAll", at |-> now,
              ret |-> getRepetitionData(localStorage)]
  /\ UNCHANGED <<localStorage, now, hist, written, deleted, pending>>

\* One call per behaviour, as in SpecQueries.
ReadGetOne(id) == last.op = "none" /\ GetOne(id)
ReadPriority(id) == last.op = "none" /\ Priority(id)
ReadSort(ids) == last.op = "none" /\ SortByPriority(ids)
ReadFilterDue(ids) == last.op = "none" /\ FilterDue(ids)
ReadDueCount(ids) == last.op = "none" /\ DueCount(ids)
ReadStats(ids) == last.op = "none" /\ Stats(ids)
ReadLoadAll == last.op = "none" /\ LoadAll
WriteUpdate(id, isCorrect) == last.op = "none" /\ Update(id, isCorrect)
WriteDeleteMany(ids) == last.op = "none" /\ DeleteMany(ids)
WriteDeleteAll == last.op = "none" /\ DeleteAll

NextR ==
  \/ \E id \in Ids : ReadGetOne(id)
  \/ \E id \in Ids : ReadPriority(id)
  \/ \E ids \in IdLists : ReadSort(ids)
  \/ \E ids \in IdLists : ReadFilterDue(ids)
  \/ \E ids \in IdLists : ReadDueCount(ids)
  \/ \E ids \in IdLists : ReadStats(ids)
  \/ ReadLoadAll
  \/ \E id \in Ids, isCorrect \in BOOLEAN : WriteUpdate(id, isCorrect)
  \/ \E ids \in IdLists : WriteDeleteMany(ids)
  \/ WriteDeleteAll

SpecReads == InitR /\ [][NextR]_vars

ReadOps ==
  {"getOne", "priority", "sort", "filterDue", "dueCount", "stats", "loadAll"}
WriteOps == {"update", "deleteMany", "deleteAll"}

\* C11. Read-only operations leave the store unchanged: a call of getOne
\* (also for an unseen id), priority, sortByPriority, filterDue, dueCount,
\* stats or loadAll leaves the stored item as it was, and the persisted
\* mapping changes only in a step that is a call of update, deleteMany or
\* deleteAll.
C11_ReadOnly ==
  [][/\ (last' # last /\ last'.op \in ReadOps) => localStorage' = localStorage
     /\ getRepetitionData(localStorage') # getRepetitionData(localStorage)
          => (last' # last /\ last'.op \in WriteOps)]_vars

\* getOne of an unseen id has returned the default record, and the store,
\* which holds another question's record, has no record of that id.
C11_Witness ==
  /\ last.op = "getOne"
  /\ last.ret = DefaultData(last.id, last.at)
  /\ last.id \notin DOMAIN Stored
  /\ Stored # [k \in {} |-> 0]
  /\ localStorage = AnsweredAll(NoItem, hist, Ids)

\* The due predicate, for the store and clock of the current state.
Due(id) ==
  \/ id \notin DOMAIN Stored
  \/ Stored[id].lastResult = "null"
  \/ Stored[id].lastResult = "incorrect"
  \/ Stored[id].nextReview <= now

\* C19. dueCount and filterDue use one predicate: an id is due at `now` iff
\* it has no record or lastResult unset, or lastResult is incorrect, or
\* nextReview <= now.  filterDue returns exactly the due items, as a
\* subsequence of its input in input order, and dueCount over the same ids
\* equals the length of that result.
C19_DuePredicate ==
  /\ last.op = "filterDue" =>
       LET in  == last.questions
           out == last.ret
           idx == {i \in 1..Len(in) : Due(in[i].id)}
       IN  /\ Len(out) = Cardinality(idx)
           /\ \A j \in 1..Len(out) :
                \E i \in idx : /\ Cardinality({k \in idx : k <= i}) = j
                               /\ out[j] = in[i]
  /\ last.op = "dueCount" =>
       last.ret = Cardinality({i \in 1..Len(last.ids) : Due(last.ids[i])})
  /\ \A ids \in IdLists :
       getReviewCount(localStorage, ids, now) =
         Len(getQuestionsForReview(localStorage, Questions(ids), now))

\* filterDue was given two questions and returned only the second: the
\* first is not yet due, the second falls due exactly now.
C19_Witness ==
  /\ last.op = "filterDue"
  /\ Len(last.questions) = 2 /\ Len(last.ret) = 1
  /\ last.ret[1] = last.questions[2]
  /\ last.ret[1].id \in DOMAIN Stored
  /\ Stored[last.ret[1].id].lastResult = "correct"
  /\ Stored[last.ret[1].id].nextReview = now
  /\ ~Due(last.questions[1].id)

\* The four classes of stats, for the store and clock of the current state.
IsNotStarted(id) ==
  id \notin DOMAIN Stored \/ Stored[id].lastResult = "null"
IsMastered(id) ==
  /\ id \in DOMAIN Stored /\ Stored[id].lastResult = "correct"
  /\ Stored[id].interval >= 21 /\ Stored[id].repetitions >= 3
IsNeedsReview(id) ==
  /\ id \in DOMAIN Stored
  /\ \/ Stored[id].lastResult = "incorrect"
     \/ /\ Stored[id].lastResult = "correct" /\ ~IsMastered(id)
        /\ Stored[id].nextReview <= now
IsLearning(id) ==
  /\ id \in DOMAIN Stored /\ Stored[id].lastResult = "correct"
  /\ ~IsMastered(id) /\ now < Stored[id].nextReview

\* C20. stats classifies each id by the first matching rule: no record or
\* lastResult unset -> notStarted; incorrect -> needsReview; correct with
\* interval >= 21 and repetitions >= 3 -> mastered, also when nextReview <=
\* now; correct with nextReview <= now -> needsReview; otherwise learning.
C20_StatsRules ==
  last.op = "stats" =>
    LET ids == last.ids
        n(P(_)) == Cardinality({i \in 1..Len(ids) : P(ids[i])})
    IN  /\ last.ret.notStarted = n(IsNotStarted)
        /\ last.ret.needsReview = n(IsNeedsReview)
        /\ last.ret.mastered = n(IsMastered)
        /\ last.ret.learning = n(IsLearning)

\* stats was asked about two questions whose review dates have both passed:
\* the first (interval 45, four repetitions) counts as mastered, the second
\* (interval 16, three repetitions) as needsReview.
C20_Witness ==
  /\ last.op = "stats" /\ Len(last.ids) = 2
  /\ IsMastered(last.ids[1]) /\ Stored[last.ids[1]].nextReview <= now
  /\ Stored[last.ids[1]].interval = 45
  /\ IsNeedsReview(last.ids[2]) /\ Stored[last.ids[2]].repetitions = 3
  /\ last.ret = [mastered |-> 1, learning |-> 0, needsReview |-> 1,
                 notStarted |-> 0]

\* C16. deleteAll is observationally equivalent to deleteMany of every stored
\* id: from any reachable store, loadAll returns the empty mapping after
\* either, and getOne, priority, dueCount, filterDue and stats return the
\* same results after either; so does update, which also leaves the same
\* stored item after either, so that every later call sees the same store.
C16_DeleteAllAsDeleteMany ==
  /\ \A ids \in IdLists : Range(ids) = DOMAIN Stored =>
       LET A == clearAllRepetitionData
           B == clearRepetitionForChapter(localStorage, ids)
       IN  /\ getRepetitionData(A) = [k \in {} |-> 0]
           /\ getRepetitionData(B) = [k \in {} |-> 0]
           /\ \A id \in Ids :
                /\ getQuestionData(A, id, now) = getQuestionData(B, id, now)
                /\ getPriorityScore(A, id, now) = getPriorityScore(B, id, now)
                /\ \A isCorrect \in BOOLEAN :
                     updateRepetition(A, id, isCorrect, now) =
                       updateRepetition(B, id, isCorrect, now)
           /\ \A l \in IdLists :
                /\ getReviewCount(A, l, now) = getReviewCount(B, l, now)
                /\ getQuestionsForReview(A, Questions(l), now) =
                     getQuestionsForReview(B, Questions(l), now)
                /\ getRepetitionStats(A, l, now) = getRepetitionStats(B, l, now)
  /\ last.op = "deleteAll" => Stored = [k \in {} |-> 0]
  /\ (last.op = "deleteMany" /\ written = [k \in {} |-> 0]) =>
       Stored = [k \in {} |-> 0]

\* deleteMany has removed both records of a two-record store: the item left
\* is the text of an empty object, where deleteAll leaves no item.
C16_Witness ==
  /\ last.op = "deleteMany"
  /\ deleted = Ids
  /\ Stored = [k \in {} |-> 0]
  /\ localStorage # clearAllRepetitionData

\* C26. Priority and the due predicate agree on correct records: for a
\* record with lastResult = correct, priority is the not-yet-due score
\* easeFactor * 5 only when the record is not due (nextReview > now), and
\* the overdue score 30 + min(daysOverdue * 5, 50) whenever it is due
\* (nextReview <= now).
C26_PriorityAgreesWithDue ==
  /\ \A id \in Ids :
       (id \in DOMAIN Stored /\ Stored[id].lastResult = "correct") =>
         IF CountFilter(localStorage, id, now)
         THEN Score(id) = Int2D(30 + Min(DaysOverdue(id) * 5, 50))
         ELSE Score(id) = DMulInt(Stored[id].easeFactor, 5)
  /\ (last.op = "priority" /\ last.id \in DOMAIN Stored
        /\ Stored[last.id].lastResult = "correct") =>
       (last.ret = DMulInt(Stored[last.id].easeFactor, 5)
          <=> Stored[last.id].nextReview > now)

\* C29. Keyed mutations touch only their own keys: update(id, isCorrect)
\* leaves the record of every other id identical (all six fields) and
\* creates or removes no other key, and deleteMany(ids) leaves the record
\* of every id not in ids identical.
C29_KeyedFrame ==
  [][LET before == getRepetitionData(localStorage)
         after  == getRepetitionData(localStorage')
     IN  /\ last'.op = "update" =>
              /\ \A k \in Ids \ {last'.id} :
                   RecordOf(after, k) = RecordOf(before, k)
              /\ DOMAIN after = DOMAIN before \cup {last'.id}
         /\ last'.op = "deleteMany" =>
              /\ \A k \in Ids \ Range(last'.ids) :
                   RecordOf(after, k) = RecordOf(before, k)
              /\ DOMAIN after = DOMAIN before \ Range(last'.ids)]_vars

\* q1 has just been answered while q2, answered correctly twice before,
\* still has its record with interval 6.
C29_Witness ==
  /\ last.op = "update" /\ last.id = "q1"
  /\ "q2" \in DOMAIN Stored
  /\ hist["q2"] = <<TRUE, TRUE>>
  /\ Stored["q2"].interval = 6 /\ Stored["q2"].repetitions = 2
  /\ Stored["q1"] = last.ret

\* The entries of ids that stats counts as mastered although their
\* nextReview has come.
MasteredDue(ids) ==
  {i \in 1..Len(ids) : IsMastered(ids[i]) /\ Stored[ids[i]].nextReview <= now}

\* C30. For every id list, store state and time, dueCount(ids) is at least
\* stats(ids).needsReview + stats(ids).notStarted, and the difference is
\* exactly the number of listed ids that stats counts as mastered while
\* their nextReview <= now.
C30_DueCountVersusStats ==
  /\ \A ids \in IdLists :
       LET dueCount == getReviewCount(localStorage, ids, now)
           stats    == getRepetitionStats(localStorage, ids, now)
       IN  /\ dueCount >= stats.needsReview + stats.notStarted
           /\ dueCount - (stats.needsReview + stats.notStarted)
                = Cardinality(MasteredDue(ids))
  /\ last.op = "dueCount" =>
       LET stats == getRepetitionStats(localStorage, last.ids, now)
       IN  last.ret = stats.needsReview + stats.notStarted
                        + Cardinality(MasteredDue(last.ids))

\* q1 was answered correctly four times (interval 45) and its review day
\* has come, q2 was missed: dueCount of both is 2, while stats reports one
\* needsReview and one mastered.
C30_Witness ==
  /\ last.op = "dueCount" /\ last.ids = <<"q1", "q2">>
  /\ IsMastered("q1") /\ Stored["q1"].nextReview <= now
  /\ "q2" \in DOMAIN Stored /\ Stored["q2"].lastResult = "incorrect"
  /\ last.ret = 2
  /\ getRepetitionStats(localStorage, last.ids, now) =
       [mastered |-> 1, learning |-> 0, needsReview |-> 1, notStarted |-> 0]

\* ------------------------------------------------------------- missed questions
\* A further specification: question q1 has been answered as any sequence of
\* at most MaxMissLen answers says, question q2 as one of MissShort says,
\* and the priority of one of them is read.
MaxMissLen == 8

MissLong == UNION {[1..n -> BOOLEAN] : n \in 0..MaxMissLen}

MissShort == {<<FALSE>>, <<TRUE, FALSE>>, <<FALSE, FALSE, FALSE, FALSE>>, <<TRUE>>}

InitMiss ==
  /\ hist \in {h \in [Ids -> MissLong \cup MissShort] :
                 h["q1"] \in MissLong /\ h["q2"] \in MissShort}
  /\ localStorage = AnsweredAll(NoItem, hist, Ids)
  /\ written = getRepetitionData(localStorage)
  /\ deleted = {}
  /\ pending = NoPending
  /\ now = 0
  /\ last = [op |-> "none"]

MissPriority(id) == last.op = "none" /\ Priority(id)

NextMiss == \E id \in Ids : MissPriority(id)

SpecMissed == InitMiss /\ [][NextMiss]_vars

\* easeFactor a is lower than b by 0.05 or more (the d components are far
\* below half a tenth).
LowerBy(a, b) == a.t < b.t

\* C25 as stated.  For every record with lastResult = incorrect, the
\* priority 100 - easeFactor * 10 is at most 87, and equals 87 exactly when
\* easeFactor is at the floor 1.3; a lower easeFactor always gives a
\* strictly higher score.
C25_MissedStrict ==
  /\ \A a \in Ids : Incorrect(a) =>
       /\ ~DLess(Int2D(87), Score(a))
       /\ Score(a) = Int2D(87) <=> Stored[a].easeFactor = Lit(13)
  /\ \A a \in Ids, b \in Ids :
       (Incorrect(a) /\ Incorrect(b)
          /\ DLess(Stored[a].easeFactor, Stored[b].easeFactor))
         => DLess(Score(b), Score(a))

\* C25 amended.  For every record with lastResult = incorrect, the priority
\* 100 - easeFactor * 10 is at most 87; it is 87 at the floor 1.3, and only
\* for an easeFactor within 10^-15 (720 units of d) of the floor; a lower
\* easeFactor never
\* gives a lower score, and gives a strictly higher one when it is lower by
\* 0.05 or more.
C25_MissedMonotone ==
  /\ \A a \in Ids : Incorrect(a) =>
       /\ ~DLess(Int2D(87), Score(a))
       /\ Stored[a].easeFactor = Lit(13) => Score(a) = Int2D(87)
       /\ Score(a) = Int2D(87) =>
            /\ Stored[a].easeFactor.t = 13
            /\ Abs(Stored[a].easeFactor.d - Lit(13).d) <= 720
  /\ \A a \in Ids, b \in Ids :
       (Incorrect(a) /\ Incorrect(b)
          /\ DLess(Stored[a].easeFactor, Stored[b].easeFactor))
         => /\ ~DLess(Score(a), Score(b))
            /\ LowerBy(Stored[a].easeFactor, Stored[b].easeFactor)
                 => DLess(Score(b), Score(a))
  /\ (last.op = "priority" /\ Incorrect(last.id)) => last.ret = Score(last.id)

\* q2 was missed once (easeFactor 2.2, score 78); q1 was answered
\* correctly three times and then missed twice, which leaves easeFactor
\* 2.2000000000000006, and its priority is read: 78 as well.
C25_Witness ==
  /\ last.op = "priority" /\ last.id = "q1"
  /\ hist["q2"] = <<FALSE>> /\ hist["q1"] = <<TRUE, TRUE, TRUE, FALSE, FALSE>>
  /\ DLess(Stored["q2"].easeFactor, Stored["q1"].easeFactor)
  /\ last.ret = Int2D(78) /\ Score("q2") = Int2D(78)

\* ------------------------------------------------------------- long streaks
\* A further specification: from an empty store, each question is answered
\* correctly up to MaxStreak times, then possibly missed once, then
\* answered correctly up to MaxRun times.
MaxStreak == 11
MaxRun == 3

NoMiss(h) == \A i \in 1..Len(h) : h[i]

StreakUpdate(id, isCorrect) ==
  /\ IF isCorrect
     THEN IF NoMiss(hist[id]) THEN Len(hist[id]) < MaxStreak
          ELSE TrailingCorrect(hist[id]) < MaxRun
     ELSE NoMiss(hist[id])
  /\ Recorded(id, isCorrect)

NextStreak == \E id \in Ids, isCorrect \in BOOLEAN : StreakUpdate(id, isCorrect)

SpecStreak == Init /\ [][NextStreak]_vars

\* The mastered rule of stats without its repetitions condition.
LongInterval(id) ==
  /\ id \in DOMAIN Stored /\ Stored[id].lastResult = "correct"
  /\ Stored[id].interval >= 21

\* C28 as stated.  In every reachable store state interval >= 21 implies
\* repetitions >= 4: no id is counted mastered by stats before at least
\* four consecutive correct answers, and the repetitions >= 3 condition of
\* the mastered rule never changes the outcome.
C28_MasteredAfterFour ==
  \A k \in DOMAIN Stored :
    /\ Stored[k].interval >= 21 => Stored[k].repetitions >= 4
    /\ Bucket(Stored, k, now) = "mastered" => TrailingCorrect(hist[k]) >= 4
    /\ Bucket(Stored, k, now) = "mastered" <=> LongInterval(k)

\* C28 amended.  In every reachable store state interval >= 21 implies
\* repetitions >= 3: no id is counted mastered by stats before at least
\* three consecutive correct answers, and the repetitions >= 3 condition of
\* the mastered rule never changes the outcome.
C28_MasteredAfterThree ==
  \A k \in DOMAIN Stored :
    /\ Stored[k].interval >= 21 => Stored[k].repetitions >= 3
    /\ Bucket(Stored, k, now) = "mastered" => TrailingCorrect(hist[k]) >= 3
    /\ Bucket(Stored, k, now) = "mastered" <=> LongInterval(k)
    /\ getRepetitionStats(localStorage, <<k>>, now).mastered =
         IF LongInterval(k) THEN 1 ELSE 0

\* Eleven correct answers raise easeFactor to 3.6; a miss and two correct
\* answers later it is 3.5 and the interval 6, so the third correct answer
\* gives interval round(6 * 3.5) = 21 at repetitions 3: counted mastered.
C28_Witness ==
  /\ last.op = "update" /\ last.isCorrect
  /\ last.id \in DOMAIN Stored
  /\ Stored[last.id] = last.ret
  /\ last.ret.interval = 21 /\ last.ret.repetitions = 3
  /\ TrailingCorrect(hist[last.id]) = 3
  /\ getRepetitionStats(localStorage, <<last.id>>, now).mastered = 1

\* ------------------------------------------------------------- two tabs
\* A further specification: two browser tabs share the localStorage item.
\* A mutation is a getItem (in getRepetitionData; updateRepetition makes a
\* second one inside getQuestionData), a computation on the loaded object
\* and a setItem (in saveRepetitionData); inside one tab these run without
\* interruption, but the other tab's getItem and setItem may fall between
\* them.  Each tab performs one mutation on a store produced
\* from THistories.  hist and written keep describing that initial store.
THistories == {<<>>, <<TRUE>>, <<FALSE>>}

InitT ==
  /\ hist \in [Ids -> THistories]
  /\ localStorage = AnsweredAll(NoItem, hist, Ids)
  /\ written = getRepetitionData(localStorage)
  /\ deleted = {}
  /\ pending = NoPending
  /\ now = 0
  /\ last = [op |-> "none"]

\* Tab t runs line 65 of updateRepetition: it has loaded the item (base).
\* stale: another tab has saved since this tab loaded.
TabLoadUpdate(t, id, isCorrect) ==
  /\ pending[t].pc = "idle"
  /\ pending' = [pending EXCEPT ![t] =
       [pc |-> "read", op |-> "update", ids |-> <<id>>,
        isCorrect |-> isCorrect, base |-> localStorage, stale |-> FALSE]]
  /\ UNCHANGED <<localStorage, now, last, hist, written, deleted>>

\* Tab t runs lines 66 to 91: getQuestionData reads the item again
\* (second), and the tab holds the text it is about to write (toSave).
TabReadUpdate(t) ==
  /\ pending[t].pc = "read"
  /\ pending' = [pending EXCEPT ![t] =
       [pc |-> "loaded", op |-> "update", ids |-> pending[t].ids,
        isCorrect |-> pending[t].isCorrect, base |-> pending[t].base,
        second |-> localStorage,
        toSave |-> updateRepetitionReads(pending[t].base, localStorage,
                                         pending[t].ids[1],
                                         pending[t].isCorrect, now).item,
        stale |-> pending[t].stale]]
  /\ UNCHANGED <<localStorage, now, last, hist, written, deleted>>

\* Tab t runs clearRepetitionForChapter up to line 36.
TabLoadDeleteMany(t, ids) ==
  /\ pending[t].pc = "idle"
  /\ pending' = [pending EXCEPT ![t] =
       [pc |-> "loaded", op |-> "deleteMany", ids |-> ids,
        isCorrect |-> FALSE, base |-> localStorage, second |-> localStorage,
        toSave |-> clearRepetitionForChapter(localStorage, ids),
        stale |-> FALSE]]
  /\ UNCHANGED <<localStorage, now, last, hist, written, deleted>>

\* What a save does to the other tabs' bookkeeping: a loaded snapshot is
\* now stale.
AfterSaveBy(t) ==
  [u \in Tabs |->
     IF u = t THEN [pending[t] EXCEPT !.pc = "saved"]
     ELSE IF pending[u].pc \in {"read", "loaded"}
          THEN [pending[u] EXCEPT !.stale = TRUE]
     ELSE pending[u]]

\* Variant: the save merges, writing only the tab's own keys over the
\* item as it is now.
TabSave_Merge(t) ==
  /\ pending[t].pc = "loaded"
  /\ localStorage' =
       LET cur  == getRepetitionData(localStorage)
           mine == getRepetitionData(pending[t].toSave)
           own  == Range(pending[t].ids)
       IN  saveRepetitionData(
             [k \in ((DOMAIN cur) \ own) \cup (DOMAIN mine \cap own) |->
                IF k \in own THEN mine[k] ELSE cur[k]])
  /\ last' = [op |-> "save", tab |-> t, at |-> now, overwrote |-> localStorage]
  /\ pending' = AfterSaveBy(t)
  /\ UNCHANGED <<now, hist, written, deleted>>

\* Tab t runs saveRepetitionData: setItem replaces the whole item.
TabSave(t) ==
  /\ pending[t].pc = "loaded"
  /\ localStorage' = pending[t].toSave
  /\ last' = [op |-> "save", tab |-> t, at |-> now, overwrote |-> localStorage]
  /\ pending' = AfterSaveBy(t)
  /\ UNCHANGED <<now, hist, written, deleted>>

NextT ==
  \/ \E t \in Tabs, id \in Ids, isCorrect \in BOOLEAN :
       TabLoadUpdate(t, id, isCorrect)
  \/ \E t \in Tabs : TabReadUpdate(t)
  \/ \E t \in Tabs, ids \in IdLists : TabLoadDeleteMany(t, ids)
  \/ \E t \in Tabs : TabSave(t)

SpecTabs == InitT /\ [][NextT]_vars

\* The item a mutation writes when it runs alone on its loaded item.
Alone(p) ==
  IF p.op = "update"
  THEN updateRepetition(p.base, p.ids[1], p.isCorrect, now).item
  ELSE clearRepetitionForChapter(p.base, p.ids)

\* The later writer saved a snapshot loaded before the earlier writer's
\* save, and the two mutate different ids.
SavedStale(l, e) ==
  /\ last.op = "save" /\ last.tab = l /\ e # l
  /\ pending[l].pc = "saved" /\ pending[l].stale
  /\ pending[e].pc = "saved"
  /\ Range(pending[l].ids) \cap Range(pending[e].ids) = {}

\* C17. Last-writer-wins: when two tabs mutate different ids and both load
\* before either saves, the item after the later save is exactly what the
\* later writer wrote, which is what its mutation alone makes of the item
\* it loaded; for the earlier writer's ids the store is as the later
\* writer loaded it, so the earlier change is lost; the save is never
\* merged or rejected.
C17_LastWriterWins ==
  \A l \in Tabs, e \in Tabs : SavedStale(l, e) =>
    /\ localStorage = pending[l].toSave
    /\ localStorage = Alone(pending[l])
    /\ \A id \in Range(pending[e].ids) :
         RecordOf(Stored, id) = RecordOf(getRepetitionData(pending[l].base), id)

\* The earlier tab stored a record for a question that had none; the later
\* tab, having loaded before that save, answered the other question: the
\* earlier record was in the item the later save overwrote and is gone.
C17_Witness ==
  \E l \in Tabs, e \in Tabs :
    /\ SavedStale(l, e)
    /\ pending[e].op = "update" /\ pending[l].op = "update"
    /\ pending[e].ids[1] \in DOMAIN getRepetitionData(last.overwrote)
    /\ pending[e].ids[1] \notin DOMAIN Stored
    /\ pending[l].ids[1] \in DOMAIN Stored

\* ------------------------------------------------------------- documents that are not objects
\* A further specification: the item under STORAGE_KEY is missing or holds one
\* of OtherItems (written by another program, an earlier version, a user
\* editing the storage), and one operation is applied to it.
InitC ==
  /\ localStorage \in {NoItem} \cup OtherItems
  /\ now \in 0..MaxNow
  /\ last = [op |-> "none"]
  /\ hist = [id \in Ids |-> <<>>]
  /\ written = [k \in {} |-> 0]
  /\ deleted = {}
  /\ pending = NoPending

OnOtherLoadAll ==
  /\ last.op = "none"
  /\ last' = [op |-> "loadAll", at |-> now, threw |-> FALSE,
              ret |-> [type |-> ReturnedType(localStorage),
                       properties |-> getRepetitionData(localStorage)]]
  /\ UNCHANGED <<localStorage, now, hist, written, deleted, pending>>

OnOtherGetOne(id) ==
  /\ last.op = "none"
  /\ LET r == getQuestionDataOutcome(localStorage, id, now)
     IN  last' = IF r.threw
                 THEN [op |-> "getOne", id |-> id, at |-> now, threw |-> TRUE]
                 ELSE [op |-> "getOne", id |-> id, at |-> now, threw |-> FALSE,
                       ret |-> r.ret]
  /\ UNCHANGED <<localStorage, now, hist, written, deleted, pending>>

OnOtherUpdate(id, isCorrect) ==
  /\ last.op = "none"
  /\ LET r == updateRepetitionOutcome(localStorage, id, isCorrect, now)
     IN  /\ localStorage' = r.item
         /\ IF r.threw
            THEN /\ last' = [op |-> "update", id |-> id, isCorrect |-> isCorrect,
                             at |-> now, threw |-> TRUE]
                 /\ UNCHANGED <<hist, written>>
            ELSE /\ last' = [op |-> "update", id |-> id, isCorrect |-> isCorrect,
                             at |-> now, threw |-> FALSE, ret |-> r.ret]
                 /\ hist' = [hist EXCEPT ![id] = Append(@, isCorrect)]
                 /\ written' = [k \in DOMAIN written \cup {id} |->
                                  IF k = id THEN r.ret ELSE written[k]]
  /\ UNCHANGED <<now, deleted, pending>>

OnOtherStats(ids) ==
  /\ last.op = "none"
  /\ LET r == getRepetitionStatsOutcome(localStorage, ids, now)
     IN  last' = IF r.threw
                 THEN [op |-> "stats", ids |-> ids, at |-> now, threw |-> TRUE]
                 ELSE [op |-> "stats", ids |-> ids, at |-> now, threw |-> FALSE,
                       ret |-> r.ret]
  /\ UNCHANGED <<localStorage, now, hist, written, deleted, pending>>

OnOtherDeleteMany(ids) ==
  /\ last.op = "none"
  /\ LET r == clearRepetitionForChapterOutcome(localStorage, ids)
     IN  /\ localStorage' = r.item
         /\ last' = [op |-> "deleteMany", ids |-> ids, at |-> now,
                     threw |-> r.threw]
  /\ UNCHANGED <<now, hist, written, deleted, pending>>

NextC ==
  \/ OnOtherLoadAll
  \/ \E id \in Ids : OnOtherGetOne(id)
  \/ \E id \in Ids, isCorrect \in BOOLEAN : OnOtherUpdate(id, isCorrect)
  \/ \E ids \in IdLists : OnOtherStats(ids)
  \/ \E ids \in IdLists : OnOtherDeleteMany(ids)

SpecOther == InitC /\ [][NextC]_vars

\* C12. loadAll never fails and returns an empty mapping whenever the
\* persisted document is absent, unreadable or corrupt, also when it parses
\* to something that is not a mapping (null, a number, a string, ...); getOne,
\* update, stats and deleteMany then do not raise and behave as on an empty
\* store.
C12_LoadAllTotal ==
  last.op # "none" =>
    /\ ~last.threw
    /\ last.op = "loadAll" =>
         last.ret = [type |-> "object", properties |-> [k \in {} |-> 0]]
    /\ last.op = "getOne" =>
         last.ret = getQuestionData(NoItem, last.id, last.at)
    /\ last.op = "update" =>
         LET r == updateRepetition(NoItem, last.id, last.isCorrect, last.at)
         IN  last.ret = r.ret /\ Stored = getRepetitionData(r.item)
    /\ last.op = "stats" =>
         last.ret = getRepetitionStats(NoItem, last.ids, last.at)
    /\ last.op = "deleteMany" =>
         ReturnedType(localStorage) = "object" /\ Stored = [k \in {} |-> 0]

\* ------------------------------------------------------------- records with a field missing
\* A further specification: the stored document holds, for one question, a
\* record that lacks its questionId field (the other five fields are as in
\* StoredRecords), and one of getOne, update and stats is applied.
RecordFields ==
  {"questionId", "easeFactor", "interval", "repetitions", "nextReview",
   "lastResult"}

WithoutField(rec, f) == [g \in DOMAIN rec \ {f} |-> rec[g]]

InitM ==
  /\ \E id \in Ids : \E rec \in StoredRecords(id) :
       localStorage =
         saveRepetitionData([k \in {id} |-> WithoutField(rec, "questionId")])
  /\ now \in 0..MaxNow
  /\ last = [op |-> "none"]
  /\ hist = [id \in Ids |-> <<>>]
  /\ written = [k \in {} |-> 0]
  /\ deleted = {}
  /\ pending = NoPending

NextM ==
  \/ \E id \in Ids : ReadGetOne(id)
  \/ \E ids \in IdLists : ReadStats(ids)
  \/ \E id \in Ids, isCorrect \in BOOLEAN : WriteUpdate(id, isCorrect)

SpecMalformed == InitM /\ [][NextM]_vars

IsMalformed(rec) == DOMAIN rec # RecordFields

\* The document without its malformed records.
WellFormedPart(item) ==
  LET data == getRepetitionData(item)
  IN  saveRepetitionData([k \in {j \in DOMAIN data : ~IsMalformed(data[j])} |->
                            data[k]])

\* C13. A stored record with a field missing is treated as absent: getOne
\* returns the default record for its id, update starts from the default
\* record, and stats counts the id as notStarted (each call answers as it
\* would on the document without the malformed records).
C13_MalformedAbsent ==
  /\ last.op = "getOne" =>
       last.ret = getQuestionData(WellFormedPart(localStorage), last.id, last.at)
  /\ last.op = "stats" =>
       last.ret = getRepetitionStats(WellFormedPart(localStorage), last.ids, last.at)
  /\ (last.op = "update" /\ IsMalformed(last.from)) =>
       last.ret = updateRepetition(NoItem, last.id, last.isCorrect, last.at).ret

\* ------------------------------------------------------------- answering a question
\* A further specification: on a store the program has produced, the user
\* selects an answer in ReviewQuiz or in Quiz; each write to localStorage
\* succeeds or raises, and the user is logged in or not.
Selected(component, id, isCorrect, flags, r) ==
  /\ localStorage' = r.item
  /\ last' = [op |-> "selectAnswer", component |-> component, id |-> id,
              isCorrect |-> isCorrect, at |-> now,
              showAnswer |-> flags.showAnswer, unknown |-> flags.unknown,
              isOnline |-> flags.isOnline, loggedIn |-> flags.loggedIn,
              setItemThrows |-> flags.setItemThrows,
              saveAnswerThrows |-> flags.saveAnswerThrows,
              threw |-> r.threw, recorded |-> r.recorded]
  /\ hist' = IF r.updated THEN [hist EXCEPT ![id] = Append(@, isCorrect)]
             ELSE hist
  /\ written' = IF r.updated THEN getRepetitionData(r.item) ELSE written
  /\ UNCHANGED <<now, deleted, pending>>

ReviewQuizSelect(id, isCorrect, showAnswer, loggedIn, setItemThrows) ==
  /\ last.op = "none"
  /\ Selected("ReviewQuiz", id, isCorrect,
              [showAnswer |-> showAnswer, unknown |-> FALSE, isOnline |-> TRUE,
               loggedIn |-> loggedIn, setItemThrows |-> setItemThrows,
               saveAnswerThrows |-> FALSE],
              ReviewQuiz_handleSelectAnswer(localStorage, showAnswer, loggedIn,
                                            id, isCorrect, now, setItemThrows))

QuizSelect(id, isCorrect, flags) ==
  /\ last.op = "none"
  /\ Selected("Quiz", id, isCorrect, flags,
              Quiz_handleSelectAnswer(localStorage, flags.showAnswer,
                                      flags.unknown, flags.isOnline,
                                      flags.loggedIn, id, isCorrect, now,
                                      flags.setItemThrows,
                                      flags.saveAnswerThrows))

QuizFlags ==
  [showAnswer : BOOLEAN, unknown : BOOLEAN, isOnline : BOOLEAN,
   loggedIn : BOOLEAN, setItemThrows : BOOLEAN, saveAnswerThrows : BOOLEAN]

NextA ==
  \/ \E id \in Ids, isCorrect \in BOOLEAN, showAnswer \in BOOLEAN,
        loggedIn \in BOOLEAN, setItemThrows \in BOOLEAN :
          ReviewQuizSelect(id, isCorrect, showAnswer, loggedIn, setItemThrows)
  \/ \E id \in Ids, isCorrect \in BOOLEAN, flags \in QuizFlags :
          QuizSelect(id, isCorrect, flags)

SpecAnswer == InitR /\ [][NextA]_vars

\* C14. If the storage write inside update raises when a logged-in user
\* selects an answer, the failure does not leave the answer handler and the
\* handler still goes on to record the answer (saveAnswer offline, the
\* user_progress upsert online).
C14_AnswerNotBlocked ==
  (/\ last.op = "selectAnswer"
   /\ ~last.showAnswer /\ ~last.unknown /\ last.loggedIn
   /\ last.setItemThrows)
    => /\ ~last.threw
       /\ last.recorded = IF last.isOnline THEN "upsert" ELSE "saveAnswer"

====
